---- MODULE Spec2Model ----
(***************************************************************************)
(* A model of src/dreammaker/parser.rs: the token source with its          *)
(* one-token pushback, the tri-state backtracking protocol, the path       *)
(* stack, the tree grammar, the expression grammar and the group skipper.  *)
(*                                                                         *)
(* Every grammar rule of the parser is an operator that takes the parser   *)
(* state `s` (the fields of struct Parser) and returns a record            *)
(*     [st |-> status, v |-> value, s |-> the parser state afterwards]     *)
(* where st is "Some" / "None" / "Err" for Status<T> and "Ok" / "Err" for  *)
(* Result<T>.  Loops of the source are RECURSIVE operators named after the *)
(* function that holds them.  A panic leaves its message in s.panic.       *)
(***************************************************************************)
EXTENDS Naturals, Sequences, FiniteSets, TLC

VARIABLES parser, call

vars == <<parser, call>>

(***************************************************************************)
(* Bounds of the model.                                                    *)
(***************************************************************************)
MaxTokLen == 3
MaxTrail == 3
MaxRuleLen == 3
MaxDepth == 1
MaxTreeLen == 4
MaxInitLen == 4
MaxOps == 4
MaxGroupLen == 3

(***************************************************************************)
(* Tokens (lexer::Token).  A located token of the input is the token plus  *)
(* its location; the location of the i-th input item is i, and             *)
(* Location::default() is 0.  An input item of kind "IoErr" stands for     *)
(* Some(Err(e)) coming out of the underlying iterator.                     *)
(***************************************************************************)
Ident(x) == [k |-> "Ident", v |-> x]
Punct(x) == [k |-> "Punct", v |-> x]
Int(x) == [k |-> "Int", v |-> x]
String(x) == [k |-> "String", v |-> x]
Resource(x) == [k |-> "Resource", v |-> x]
Float(x) == [k |-> "Float", v |-> x]
Eof == [k |-> "Eof", v |-> ""]
IoErr == [k |-> "IoErr", v |-> ""]
None == [k |-> "None", v |-> ""]

\* format!("{}", tok) and format!("{:?}", tok)
Fmt(tok) == tok.v
Dbg(tok) == tok.k \o "(" \o tok.v \o ")"

NoArg == [none |-> TRUE]

R(st, v, s) == [st |-> st, v |-> v, s |-> s]

IsFatal(r) == r.st = "Err"

\* DMError::new(location, desc); `got` and `expected` are the parts of the
\* description that parse_error formats into it.
DMError(loc, msg, got, expected) ==
    [loc |-> loc, msg |-> msg, got |-> got, expected |-> expected]

(***************************************************************************)
(* Calls.  The rules of the grammar call one another; self_f(s, ...) is   *)
(* the call self.f(...) made on parser state s, and dispatch runs the     *)
(* rule that was called.                                                  *)
(***************************************************************************)
RECURSIVE dispatch(_, _, _)

self_next(s, expected) ==
    dispatch("next", s, [expected |-> expected])
self_parse_error(s) ==
    dispatch("parse_error", s, NoArg)
self_exact(s, tok) ==
    dispatch("exact", s, [tok |-> tok])
self_ident(s) ==
    dispatch("ident", s, NoArg)
self_add_entry(s, stack) ==
    dispatch("add_entry", s, [stack |-> stack])
self_add_var(s, stack, expr) ==
    dispatch("add_var", s, [stack |-> stack, expr |-> expr])
self_add_proc(s, stack) ==
    dispatch("add_proc", s, [stack |-> stack])
self_finalize(s) ==
    dispatch("finalize", s, NoArg)
self_path_separator(s) ==
    dispatch("path_separator", s, NoArg)
self_prefab_loop(s, parts) ==
    dispatch("prefab_loop", s, [parts |-> parts])
self_prefab(s) ==
    dispatch("prefab", s, NoArg)
self_expression_loop(s, expr, disallow_assign) ==
    dispatch("expression_loop", s, [expr |-> expr, disallow_assign |-> disallow_assign])
self_expression(s, disallow_assign) ==
    dispatch("expression", s, [disallow_assign |-> disallow_assign])
self_expression_part_loop(s, bits, ops, rhs, prev_op, disallow_assign) ==
    dispatch("expression_part_loop", s, [bits |-> bits, ops |-> ops, rhs |-> rhs, prev_op |-> prev_op, disallow_assign |-> disallow_assign])
self_expression_part(s, lhs, prev_op, disallow_assign) ==
    dispatch("expression_part", s, [lhs |-> lhs, prev_op |-> prev_op, disallow_assign |-> disallow_assign])
self_group_unary(s, unary_ops) ==
    dispatch("group_unary", s, [unary_ops |-> unary_ops])
self_group_follow(s, follows) ==
    dispatch("group_follow", s, [follows |-> follows])
self_group(s) ==
    dispatch("group", s, NoArg)
self_term_new(s) ==
    dispatch("term_new", s, NoArg)
self_term(s) ==
    dispatch("term", s, NoArg)
self_follow(s) ==
    dispatch("follow", s, NoArg)
self_arguments(s) ==
    dispatch("arguments", s, NoArg)
self_list_arguments(s) ==
    dispatch("list_arguments", s, NoArg)
self_closure(s, f) ==
    dispatch("closure", s, [f |-> f])
self_separated_loop(s, sep, terminator, f, comma_legal, elems) ==
    dispatch("separated_loop", s, [sep |-> sep, terminator |-> terminator, f |-> f, comma_legal |-> comma_legal, elems |-> elems])
self_separated(s, sep, terminator, f) ==
    dispatch("separated", s, [sep |-> sep, terminator |-> terminator, f |-> f])
self_ignore_group_loop(s, left, right, depth) ==
    dispatch("ignore_group_loop", s, [left |-> left, right |-> right, depth |-> depth])
self_ignore_group(s, left, right) ==
    dispatch("ignore_group", s, [left |-> left, right |-> right])
self_tree_path_loop(s, parts) ==
    dispatch("tree_path_loop", s, [parts |-> parts])
self_tree_path(s) ==
    dispatch("tree_path", s, NoArg)
self_tree_entry_size(s) ==
    dispatch("tree_entry_size", s, NoArg)
self_tree_entry_contents(s, path, new_stack) ==
    dispatch("tree_entry_contents", s, [path |-> path, new_stack |-> new_stack])
self_tree_entry(s, parent) ==
    dispatch("tree_entry", s, [parent |-> parent])
self_tree_entries(s, parent, terminator) ==
    dispatch("tree_entries", s, [parent |-> parent, terminator |-> terminator])
self_tree_block(s, parent) ==
    dispatch("tree_block", s, [parent |-> parent])
self_root(s) ==
    dispatch("root", s, NoArg)

(***************************************************************************)
(* Parser::new                                                             *)
(***************************************************************************)
new(input) ==
    [ input    |-> input,      \* the underlying iterator: the items ...
      pos      |-> 0,          \* ... and how many of them were drawn
      eof      |-> FALSE,
      next     |-> None,
      location |-> 0,
      expected |-> << >>,
      tree     |-> << >>,      \* ObjectTree: the registration calls made
      stdout   |-> << >>,      \* what println! wrote
      panic    |-> "",         \* the message of the panic, if any
      \* history, read by no operator of the parser:
      past     |-> << >>,      \* outcomes of the pulls made on exhausted input
      blocks   |-> << >>,      \* the paths of the blocks now open
      entries  |-> << >>,      \* the paths tree_entry has read
      errors   |-> << >>,      \* the first fatal error raised, and when
      stacks   |-> { },        \* the path stacks handed on or registered
      loops    |-> { },        \* the loop iterations that went on, by progress
      rejectAt |-> 0 ]         \* which registration call the tree rejects

(***************************************************************************)
(* Token source                                                            *)
(***************************************************************************)
(***************************************************************************)
(* The logical remaining token sequence: the pushback buffer followed by   *)
(* the part of the input not drawn yet.  Stream adds the Eof token that    *)
(* next() gives once after the input: it is what the pulls still to come   *)
(* will return.                                                            *)
(***************************************************************************)
Buffered(s) == IF s.next # None THEN << s.next >> ELSE << >>

Unread(s) == SubSeq(s.input, s.pos + 1, Len(s.input))

Remaining(s) == Buffered(s) \o Unread(s)

Stream(s) == Remaining(s) \o (IF s.eof THEN << >> ELSE << Eof >>)

\* s2, with one more iteration of `loop` noted: the iteration began in state
\* s and the loop goes on in state s2; took is the number of tokens of the
\* stream it has consumed and drew the number it has drawn from the input
again(s2, loop, s) ==
    [s2 EXCEPT !.loops = @ \cup
        { [ loop |-> loop, took |-> Len(Stream(s)) - Len(Stream(s2)),
            drew |-> s2.pos - s.pos ] }]

\* s, with the fatal error e noted as raised after Len(s.tree) calls on the
\* tree, if it is the first one
raised(s, e) ==
    IF s.errors # << >> THEN s
    ELSE [s EXCEPT !.errors = << [err |-> e, calls |-> Len(s.tree)] >>]

\* A faulty token source: it never notes that it has given Eof.
fresh_forgetful(s) ==
    IF s.pos < Len(s.input)
    THEN R("Ok", s.input[s.pos + 1],
           [s EXCEPT !.pos = s.pos + 1, !.expected = << >>,
                     !.location = s.pos + 1])
    ELSE R("Ok", Eof, s)

\* A faulty token source: it moves the location on every pull, also on one
\* that fails or gives Eof.
fresh_relocating(s) ==
    IF s.pos < Len(s.input)
    THEN LET token == s.input[s.pos + 1]
             s1 == [s EXCEPT !.pos = s.pos + 1, !.location = s.pos + 1]
         IN  IF token.k = "IoErr"
             THEN R("Err", DMError(s.pos + 1, "io", None, << >>), s1)
             ELSE R("Ok", token, [s1 EXCEPT !.expected = << >>])
    ELSE IF ~s.eof
         THEN R("Ok", Eof, [s EXCEPT !.eof = TRUE, !.location = s.pos + 1])
         ELSE R("Err", DMError(s.location, "read-after-EOF", None, << >>), s)

\* What the closure of Parser::next gives when the buffer is empty.
fresh(s) ==
    IF s.pos < Len(s.input)
    THEN LET token == s.input[s.pos + 1]
             s1 == [s EXCEPT !.pos = s.pos + 1]
         IN  IF token.k = "IoErr"
             THEN R("Err", DMError(s.pos + 1, "io", None, << >>), s1)
             ELSE R("Ok", token,
                    [s1 EXCEPT !.expected = << >>, !.location = s.pos + 1])
    ELSE IF ~s.eof
         THEN R("Ok", Eof, [s EXCEPT !.eof = TRUE])
         ELSE R("Err", DMError(s.location, "read-after-EOF", None, << >>), s)

\* fresh(s), with the outcome noted in s.past when the input was exhausted
\* and in s.errors when it is an error.
pull(s) ==
    LET r == fresh(s)
        r1 == IF r.st = "Err" THEN [r EXCEPT !.s = raised(r.s, r.v)] ELSE r
    IN  IF s.pos < Len(s.input) THEN r1
        ELSE [r1 EXCEPT !.s.past =
                 Append(@, IF r.st = "Ok" THEN r.v.k ELSE r.v.msg)]

\* A faulty next: replaying the buffered token empties the trail too.
next_clearing(s, expected) ==
    LET tok == IF s.next # None
               THEN R("Ok", s.next, [s EXCEPT !.next = None, !.expected = << >>])
               ELSE pull(s)
    IN  R(tok.st, tok.v,
          [tok.s EXCEPT !.expected = Append(tok.s.expected, expected)])

next(s, expected) ==
    LET tok == IF s.next # None
               THEN R("Ok", s.next, [s EXCEPT !.next = None])
               ELSE pull(s)
    IN  R(tok.st, tok.v,
          [tok.s EXCEPT !.expected = Append(tok.s.expected, expected)])

put_back(s, tok) ==
    IF s.next # None
    THEN [s EXCEPT !.panic = "cannot put_back twice"]
    ELSE [s EXCEPT !.next = tok]

\* A faulty try_another: it reports did-not-match and keeps the token.
try_another_keeping(s, tok) == R("None", None, s)

try_another(s, tok) == R("None", None, put_back(s, tok))

\* A faulty parse_error: it hands back the token it read a second time.
parse_error_twice(s) ==
    LET got == self_next(s, "")
    IN  R("Err", DMError(got.s.location, "got", got.v, s.expected),
          put_back(put_back(got.s, got.v), got.v))

parse_error(s) ==
    LET expected == s.expected
        got == self_next(s, "")
    IN  IF got.st = "Ok"
        THEN LET s1 == put_back(got.s, got.v)
                 e == DMError(s1.location, "got", got.v, expected)
             IN  R("Err", e, raised(s1, e))
        ELSE LET e == DMError(got.s.location, "i/o error", None, expected)
             IN  R("Err", e, raised(got.s, e))

require(t) ==
    CASE t.st = "Some" -> t
      [] t.st = "None" -> self_parse_error(t.s)
      [] OTHER -> t

exact(s, tok) ==
    LET nx == self_next(s, Fmt(tok))
    IN  IF IsFatal(nx) THEN nx
        ELSE IF nx.v = tok THEN R("Some", tok, nx.s)
        ELSE try_another(nx.s, nx.v)

ident(s) ==
    LET nx == self_next(s, "identifier")
    IN  IF IsFatal(nx) THEN nx
        ELSE IF nx.v.k = "Ident" THEN R("Some", nx.v.v, nx.s)
        ELSE try_another(nx.s, nx.v)

(***************************************************************************)
(* Path stack.  A node is [parent, parts]; parent is << >> for None and    *)
(* << node >> for Some(&node).                                             *)
(***************************************************************************)
PathStack(parent, parts) == [parent |-> parent, parts |-> parts]

\* s, with `stack` noted as handed to an entry list or to the object tree
noted(s, stack) == [s EXCEPT !.stacks = @ \cup { stack }]

RECURSIVE collect(_, _)
\* the while-let loop of PathStack::iter
collect(c, rest) ==
    LET rest1 == Append(rest, c.parts)
    IN  IF c.parent = << >> THEN rest1 ELSE collect(c.parent[1], rest1)

\* A faulty PathStack::iter: it forgets the parents.
iter_own(self) == [current |-> << >>, rest |-> << self.parts >>]

iter(self) == [current |-> << >>, rest |-> collect(self, << >>)]

RECURSIVE drain(_, _)
\* PathStackIter::next called until it returns None; out is what it yielded
drain(it, out) ==
    IF it.current # << >>
    THEN drain([it EXCEPT !.current = Tail(it.current)],
               Append(out, Head(it.current)))
    ELSE IF it.rest # << >>
         THEN drain([current |-> it.rest[Len(it.rest)],
                     rest |-> SubSeq(it.rest, 1, Len(it.rest) - 1)], out)
         ELSE out

(***************************************************************************)
(* The object tree, as the parser sees it: the calls made on it, in order, *)
(* each of which the tree may reject.                                      *)
(***************************************************************************)
NoExpr == [e |-> "None"]

register(s, fn, stack, expr) ==
    LET entry == [ fn |-> fn, loc |-> s.location,
                   path |-> drain(iter(stack), << >>), expr |-> expr,
                   \* history: the entry's own path, and the blocks open
                   own |-> s.entries[Len(s.entries)].parts,
                   absolute |-> s.entries[Len(s.entries)].absolute,
                   blocks |-> s.blocks ]
        s1 == noted([s EXCEPT !.tree = Append(@, entry)], stack)
    IN  IF Len(s1.tree) = s.rejectAt
        THEN LET e == DMError(s.location, "rejected", None, << >>)
             IN  R("Err", e, raised(s1, e))
        ELSE R("Ok", None, s1)

\* A faulty registration: the entry is registered twice.
add_entry_twice(s, stack) ==
    register(register(s, "add_entry", stack, NoExpr).s, "add_entry", stack, NoExpr)

add_entry(s, stack) == register(s, "add_entry", stack, NoExpr)
add_var(s, stack, expr) == register(s, "add_var", stack, expr)
add_proc(s, stack) == register(s, "add_proc", stack, NoExpr)

finalize(s) ==
    LET s1 == [s EXCEPT !.tree = Append(@,
                 [ fn |-> "finalize", loc |-> s.location, path |-> << >>,
                   expr |-> NoExpr, own |-> << >>, absolute |-> FALSE,
                   blocks |-> s.blocks ])]
    IN  IF Len(s1.tree) = s.rejectAt
        THEN LET e == DMError(s.location, "rejected", None, << >>)
             IN  R("Err", e, raised(s1, e))
        ELSE R("Ok", None, s1)

(***************************************************************************)
(* Operator precedence table                                               *)
(***************************************************************************)
\* A faulty table entry: every operator is left-binding.
OpInfo_left(strength, right_binding, kind, op, token) ==
    [ strength |-> strength, right_binding |-> FALSE,
      token |-> token, oper |-> [kind |-> kind, op |-> op] ]

OpInfo(strength, right_binding, kind, op, token) ==
    [ strength |-> strength, right_binding |-> right_binding,
      token |-> token, oper |-> [kind |-> kind, op |-> op] ]

BINARY_OPS == <<
    OpInfo(11, FALSE, "BinaryOp", "Pow", "Pow"),
    OpInfo(10, FALSE, "BinaryOp", "Mul", "Mul"),
    OpInfo(10, FALSE, "BinaryOp", "Div", "Slash"),
    OpInfo(10, FALSE, "BinaryOp", "Mod", "Mod"),
    OpInfo(9,  FALSE, "BinaryOp", "Add", "Add"),
    OpInfo(9,  FALSE, "BinaryOp", "Sub", "Sub"),
    OpInfo(8,  FALSE, "BinaryOp", "Less", "Less"),
    OpInfo(8,  FALSE, "BinaryOp", "Greater", "Greater"),
    OpInfo(8,  FALSE, "BinaryOp", "LessEq", "LessEq"),
    OpInfo(8,  FALSE, "BinaryOp", "GreaterEq", "GreaterEq"),
    OpInfo(7,  FALSE, "BinaryOp", "LShift", "LShift"),
    OpInfo(7,  FALSE, "BinaryOp", "RShift", "RShift"),
    OpInfo(6,  FALSE, "BinaryOp", "Eq", "Eq"),
    OpInfo(6,  FALSE, "BinaryOp", "NotEq", "NotEq"),
    OpInfo(6,  FALSE, "BinaryOp", "NotEq", "LessGreater"),
    OpInfo(5,  FALSE, "BinaryOp", "BitAnd", "BitAnd"),
    OpInfo(5,  FALSE, "BinaryOp", "BitXor", "BitXor"),
    OpInfo(5,  FALSE, "BinaryOp", "BitOr", "BitOr"),
    OpInfo(4,  FALSE, "BinaryOp", "And", "And"),
    OpInfo(3,  FALSE, "BinaryOp", "Or", "Or"),
    OpInfo(0,  TRUE,  "AssignOp", "Assign", "Assign"),
    OpInfo(0,  TRUE,  "AssignOp", "AddAssign", "AddAssign"),
    OpInfo(0,  TRUE,  "AssignOp", "SubAssign", "SubAssign"),
    OpInfo(0,  TRUE,  "AssignOp", "MulAssign", "MulAssign"),
    OpInfo(0,  TRUE,  "AssignOp", "DivAssign", "DivAssign"),
    OpInfo(0,  TRUE,  "AssignOp", "BitAndAssign", "BitAndAssign"),
    OpInfo(0,  TRUE,  "AssignOp", "BitOrAssign", "BitOrAssign"),
    OpInfo(0,  TRUE,  "AssignOp", "BitXorAssign", "BitXorAssign"),
    OpInfo(0,  TRUE,  "AssignOp", "LShiftAssign", "LShiftAssign"),
    OpInfo(0,  TRUE,  "AssignOp", "RShiftAssign", "RShiftAssign") >>

\* Op::build
build(oper, lhs, rhs) ==
    [e |-> oper.kind, op |-> oper.op, lhs |-> lhs, rhs |-> rhs]

\* BINARY_OPS.iter().find(|op| op.token == p): << >> for None, << info >> for Some
find(p) ==
    LET hits == { i \in 1..Len(BINARY_OPS) : BINARY_OPS[i].token = p }
    IN  IF hits = {} THEN << >>
        ELSE << BINARY_OPS[CHOOSE i \in hits : \A j \in hits : i <= j] >>

\* A faulty operator lookup: '=' is an operator wherever it is met.
operator_any(tok, disallow_assign) ==
    IF tok.k = "Punct" THEN find(tok.v) ELSE << >>

\* the inner match of expression / expression_part on the token read
operator(tok, disallow_assign) ==
    IF tok = Punct("Assign") /\ disallow_assign THEN << >>
    ELSE IF tok.k = "Punct" THEN find(tok.v)
    ELSE << >>

(***************************************************************************)
(* Expressions                                                             *)
(***************************************************************************)

path_separator(s) ==
    LET nx == self_next(s, "path separator")
    IN  IF IsFatal(nx) THEN nx
        ELSE IF nx.v = Punct("Slash") THEN R("Some", "Slash", nx.s)
        ELSE IF nx.v = Punct("Dot") THEN R("Some", "Dot", nx.s)
        ELSE IF nx.v = Punct("Colon") THEN R("Some", "Colon", nx.s)
        ELSE R("None", None, put_back(nx.s, nx.v))

\* LinkedHashMap::insert: a key already present keeps its place
insert(map, key, value) ==
    IF \E i \in 1..Len(map) : map[i][1] = key
    THEN [i \in 1..Len(map) |->
             IF map[i][1] = key THEN <<key, value>> ELSE map[i]]
    ELSE Append(map, <<key, value>>)

RECURSIVE inserts(_, _)
inserts(map, pairs) ==
    IF pairs = << >> THEN map
    ELSE inserts(insert(map, Head(pairs)[1], Head(pairs)[2]), Tail(pairs))

\* the loop of prefab: more path elements, empty ones ignored
prefab_loop(s, parts) ==
    LET sep == self_path_separator(s)
    IN  IF IsFatal(sep) THEN sep
        ELSE IF sep.st = "Some"
        THEN LET i == self_ident(sep.s)
             IN  IF IsFatal(i) THEN i
                 ELSE IF i.st = "Some"
                 THEN self_prefab_loop(again(i.s, "prefab", s),
                          Append(parts, <<sep.v, i.v>>))
                 ELSE self_prefab_loop(again(i.s, "prefab", s), parts)
        ELSE R("Some", parts, sep.s)

prefab(s) ==
    LET sep == self_path_separator(s)
    IN  IF sep.st # "Some" THEN sep
        ELSE
        LET id == require(self_ident(sep.s))
        IN  IF IsFatal(id) THEN id
            ELSE
            LET parts == self_prefab_loop(id.s, << <<sep.v, id.v>> >>)
            IN  IF IsFatal(parts) THEN parts
                ELSE
                LET lb == self_exact(parts.s, Punct("LBrace"))
                IN  IF IsFatal(lb) THEN lb
                    ELSE IF lb.st = "Some"
                    THEN LET sp == self_separated(lb.s, "Semicolon", "RBrace", "prefab_var")
                         IN  IF IsFatal(sp) THEN sp
                             ELSE R("Some", [path |-> parts.v,
                                             vars |-> inserts(<< >>, sp.v)], sp.s)
                    ELSE R("Some", [path |-> parts.v, vars |-> << >>], lb.s)

\* the loop of expression
expression_loop(s, expr, disallow_assign) ==
    LET nx == self_next(s, "binary operator")
    IN  IF IsFatal(nx) THEN nx
        ELSE
        LET info == operator(nx.v, disallow_assign)
        IN  IF info = << >>
            THEN R("Some", expr, put_back(nx.s, nx.v))
            ELSE LET part == require(self_expression_part(nx.s, expr, info[1],
                                                     disallow_assign))
                 IN  IF IsFatal(part) THEN part
                     ELSE self_expression_loop(again(part.s, "expression", s),
                              part.v, disallow_assign)

expression(s, disallow_assign) ==
    LET g == self_group(s)
    IN  IF g.st # "Some" THEN g
        ELSE self_expression_loop(g.s, g.v, disallow_assign)

RECURSIVE fold_right(_, _, _)
\* for (op, bit) in ops.into_iter().zip(bits.into_iter()).rev()
fold_right(ops, bits, result) ==
    IF ops = << >> \/ bits = << >> THEN result
    ELSE LET n == IF Len(ops) < Len(bits) THEN Len(ops) ELSE Len(bits)
         IN  fold_right(SubSeq(ops, 1, n - 1), SubSeq(bits, 1, n - 1),
                        build(ops[n], bits[n], result))

RECURSIVE fold_left(_, _, _)
\* for (item, op) in iter.zip(&mut ops_iter); gives the result and what is
\* left of ops_iter
fold_left(result, items, ops) ==
    IF items = << >> THEN [result |-> result, ops |-> ops]
    ELSE IF ops = << >> THEN [result |-> result, ops |-> ops]
    ELSE fold_left(build(Head(ops), result, Head(items)), Tail(items), Tail(ops))

\* A faulty fold: every run is folded from the right.
fold_all_right(s, prev_op, bits, ops, rhs) ==
    R("Some", fold_right(ops, bits, rhs), s)

\* A faulty fold: every run is folded from the left.
fold_all_left(s, prev_op, bits, ops, rhs) ==
    LET f == fold_left(Head(bits), Tail(bits), ops)
    IN  R("Some", build(Head(f.ops), f.result, rhs), s)

\* the tail of expression_part: everything in 'ops' should be the same strength
fold(s, prev_op, bits, ops, rhs) ==
    IF prev_op.right_binding
    THEN R("Some", fold_right(ops, bits, rhs), s)
    ELSE LET f == fold_left(Head(bits), Tail(bits), ops)
         IN  IF f.ops = << >>
             THEN R("Some", f.result, [s EXCEPT !.panic = "unwrap on None"])
             ELSE R("Some", build(Head(f.ops), f.result, rhs), s)

\* A faulty comparison: every operator counts as equally strong.
cmp_flat(a, b) == "Equal"

\* u8::cmp
cmp(a, b) == IF a > b THEN "Greater" ELSE IF a < b THEN "Less" ELSE "Equal"

\* the loop of expression_part
expression_part_loop(s, bits, ops, rhs, prev_op, disallow_assign) ==
    LET nx == self_next(s, "binary operator")
    IN  IF IsFatal(nx) THEN nx
        ELSE
        LET info == operator(nx.v, disallow_assign)
        IN  IF info = << >>
            THEN fold(put_back(nx.s, nx.v), prev_op, bits, ops, rhs)
            ELSE IF cmp(info[1].strength, prev_op.strength) = "Greater"
            THEN LET r == require(self_expression_part(nx.s, rhs, info[1],
                                                  disallow_assign))
                 IN  IF IsFatal(r) THEN r
                     ELSE self_expression_part_loop(again(r.s, "expression_part", s),
                              bits, ops, r.v, prev_op,
                                               disallow_assign)
            ELSE IF cmp(info[1].strength, prev_op.strength) = "Less"
            THEN fold(put_back(nx.s, Punct(info[1].token)), prev_op, bits, ops, rhs)
            ELSE LET g == require(self_group(nx.s))
                 IN  IF IsFatal(g) THEN g
                     ELSE self_expression_part_loop(again(g.s, "expression_part", s),
                              Append(bits, rhs),
                                               Append(ops, info[1].oper), g.v,
                                               prev_op, disallow_assign)

expression_part(s, lhs, prev_op, disallow_assign) ==
    LET rhs == require(self_group(s))
    IN  IF IsFatal(rhs) THEN rhs
        ELSE self_expression_part_loop(rhs.s, << lhs >>, << prev_op.oper >>, rhs.v,
                                  prev_op, disallow_assign)

\* the first loop of group
group_unary(s, unary_ops) ==
    LET nx == self_next(s, "unary operator")
    IN  IF IsFatal(nx) THEN nx
        ELSE IF nx.v = Punct("Sub") THEN self_group_unary(again(nx.s, "group", s),
                                             Append(unary_ops, "Neg"))
        ELSE IF nx.v = Punct("Not") THEN self_group_unary(again(nx.s, "group", s),
                                             Append(unary_ops, "Not"))
        ELSE IF nx.v = Punct("BitNot")
        THEN self_group_unary(again(nx.s, "group", s), Append(unary_ops, "BitNot"))
        ELSE R("Some", unary_ops, put_back(nx.s, nx.v))

\* the second loop of group
group_follow(s, follows) ==
    LET f == self_follow(s)
    IN  IF IsFatal(f) THEN f
        ELSE IF f.st = "Some" THEN self_group_follow(again(f.s, "group", s),
                                       Append(follows, f.v))
        ELSE R("Some", follows, f.s)

group(s) ==
    LET unary_ops == self_group_unary(s, << >>)
    IN  IF IsFatal(unary_ops) THEN unary_ops
        ELSE
        LET t == IF Len(unary_ops.v) > 0
                 THEN require(self_term(unary_ops.s))
                 ELSE self_term(unary_ops.s)
        IN  IF t.st # "Some" THEN t
            ELSE
            LET f == self_group_follow(t.s, << >>)
            IN  IF IsFatal(f) THEN f
                ELSE R("Some", [e |-> "Base", unary |-> unary_ops.v,
                                term |-> t.v, follow |-> f.v], f.s)

\* term :: 'new' (ident | abs-path)? arglist?
term_new(s) ==
    LET i == self_ident(s)
    IN  IF IsFatal(i) THEN i
        ELSE
        LET ty == IF i.st = "Some"
                 THEN R("Some", [n |-> "Ident", ident |-> i.v], i.s)
                 ELSE LET p == self_prefab(i.s)
                      IN  IF IsFatal(p) THEN p
                          ELSE IF p.st = "Some"
                          THEN R("Some", [n |-> "Prefab", prefab |-> p.v], p.s)
                          ELSE R("Some", [n |-> "Implicit"], p.s)
        IN  IF IsFatal(ty) THEN ty
            ELSE LET a == self_arguments(ty.s)
                 IN  IF IsFatal(a) THEN a
                     ELSE R("Some", [t |-> "New", type_ |-> ty.v,
                                     args |-> IF a.st = "Some" THEN << a.v >>
                                              ELSE << >>], a.s)

term(s) ==
    LET nx == self_next(s, "term")
    IN  IF IsFatal(nx) THEN nx
        ELSE IF nx.v = Ident("new") THEN self_term_new(nx.s)
        ELSE IF nx.v = Ident("list")
        THEN LET args == self_list_arguments(nx.s)
             IN  IF IsFatal(args) THEN args
                 ELSE IF args.st = "Some"
                 THEN R("Some", [t |-> "List", list |-> args.v], args.s)
                 ELSE R("Some", [t |-> "Ident", name |-> "list"], args.s)
        ELSE IF nx.v \in { Punct("Slash"), Punct("Dot"), Punct("Colon") }
        THEN LET p == require(self_prefab(put_back(nx.s, nx.v)))
             IN  IF IsFatal(p) THEN p
                 ELSE R("Some", [t |-> "Prefab", prefab |-> p.v], p.s)
        ELSE IF nx.v.k = "Ident"
        THEN LET args == self_arguments(nx.s)
             IN  IF IsFatal(args) THEN args
                 ELSE IF args.st = "Some"
                 THEN R("Some", [t |-> "Call", name |-> nx.v.v, args |-> args.v],
                        args.s)
                 ELSE R("Some", [t |-> "Ident", name |-> nx.v.v], args.s)
        ELSE IF nx.v.k \in { "String", "Resource", "Int", "Float" }
        THEN R("Some", [t |-> nx.v.k, lit |-> nx.v.v], nx.s)
        ELSE IF nx.v = Punct("LParen")
        THEN LET expr == require(self_expression(nx.s, FALSE))
             IN  IF IsFatal(expr) THEN expr
                 ELSE LET rp == require(self_exact(expr.s, Punct("RParen")))
                      IN  IF IsFatal(rp) THEN rp
                          ELSE R("Some", [t |-> "Expr", expr |-> expr.v], rp.s)
        ELSE try_another(nx.s, nx.v)

follow(s) ==
    LET nx == self_next(s, "field, index, or function call")
    IN  IF IsFatal(nx) THEN nx
        ELSE IF nx.v = Punct("Dot")
        THEN LET id == require(self_ident(nx.s))
             IN  IF IsFatal(id) THEN id
                 ELSE LET args == self_arguments(id.s)
                      IN  IF IsFatal(args) THEN args
                          ELSE IF args.st = "Some"
                          THEN R("Some", [f |-> "Call", name |-> id.v,
                                          args |-> args.v], args.s)
                          ELSE R("Some", [f |-> "Field", name |-> id.v], args.s)
        ELSE IF nx.v = Punct("LBracket")
        THEN LET expr == require(self_expression(nx.s, FALSE))
             IN  IF IsFatal(expr) THEN expr
                 ELSE LET rb == require(self_exact(expr.s, Punct("RBracket")))
                      IN  IF IsFatal(rb) THEN rb
                          ELSE R("Some", [f |-> "Index", expr |-> expr.v], rb.s)
        ELSE IF nx.v = Ident("as")
        THEN LET cast == require(self_ident(nx.s))
             IN  IF IsFatal(cast) THEN cast
                 ELSE R("Some", [f |-> "Cast", name |-> cast.v], cast.s)
        ELSE try_another(nx.s, nx.v)

arguments(s) ==
    LET lp == self_exact(s, Punct("LParen"))
    IN  IF lp.st # "Some" THEN lp
        ELSE require(self_separated(lp.s, "Comma", "RParen", "expression"))

list_arguments(s) ==
    LET lp == self_exact(s, Punct("LParen"))
    IN  IF lp.st # "Some" THEN lp
        ELSE require(self_separated(lp.s, "Comma", "RParen", "list_entry"))

\* the closures handed to separated, by the place that builds them
closure(s, f) ==
    IF f = "expression" THEN self_expression(s, FALSE)
    ELSE IF f = "list_entry"
    THEN LET first_expr == require(self_expression(s, TRUE))
         IN  IF IsFatal(first_expr) THEN first_expr
             ELSE
             LET as == self_exact(first_expr.s, Punct("Assign"))
             IN  IF IsFatal(as) THEN as
                 ELSE IF as.st = "Some"
                 THEN LET second_expr == require(self_expression(as.s, FALSE))
                      IN  IF IsFatal(second_expr) THEN second_expr
                          ELSE R("Some", << first_expr.v, << second_expr.v >> >>,
                                 second_expr.s)
                 ELSE R("Some", << first_expr.v, << >> >>, as.s)
    ELSE \* "prefab_var"
         LET key == require(self_ident(s))
         IN  IF IsFatal(key) THEN key
             ELSE
             LET as == require(self_exact(key.s, Punct("Assign")))
             IN  IF IsFatal(as) THEN as
                 ELSE LET value == require(self_expression(as.s, FALSE))
                      IN  IF IsFatal(value) THEN value
                          ELSE R("Some", << key.v, value.v >>, value.s)

\* A faulty loop of separated: it goes on with the separator still unread.
separated_loop_stuck(s, sep, terminator, f, comma_legal, elems) ==
    LET nx == self_next(s, "list element")
    IN  IF IsFatal(nx) THEN nx
        ELSE IF nx.v = Punct(terminator) THEN R("Some", elems, nx.s)
        ELSE IF comma_legal /\ nx.v = Punct(sep)
        THEN self_separated_loop(again(put_back(nx.s, nx.v), "separated", s),
                 sep, terminator, f, FALSE, elems)
        ELSE IF ~comma_legal
        THEN LET v == require(self_closure(put_back(nx.s, nx.v), f))
             IN  IF IsFatal(v) THEN v
                 ELSE self_separated_loop(again(v.s, "separated", s),
                          sep, terminator, f, TRUE,
                                     Append(elems, v.v))
        ELSE self_parse_error(put_back(nx.s, nx.v))

\* the loop of separated
separated_loop(s, sep, terminator, f, comma_legal, elems) ==
    LET nx == self_next(s, "list element")
    IN  IF IsFatal(nx) THEN nx
        ELSE IF nx.v = Punct(terminator) THEN R("Some", elems, nx.s)
        ELSE IF comma_legal /\ nx.v = Punct(sep)
        THEN self_separated_loop(again(nx.s, "separated", s),
                 sep, terminator, f, FALSE, elems)
        ELSE IF ~comma_legal
        THEN LET v == require(self_closure(put_back(nx.s, nx.v), f))
             IN  IF IsFatal(v) THEN v
                 ELSE self_separated_loop(again(v.s, "separated", s),
                          sep, terminator, f, TRUE,
                                     Append(elems, v.v))
        ELSE self_parse_error(put_back(nx.s, nx.v))

separated(s, sep, terminator, f) ==
    self_separated_loop(s, sep, terminator, f, FALSE, << >>)

(***************************************************************************)
(* Procs: the group skipper                                                *)
(***************************************************************************)
\* A faulty group skipper: it stops at the first closing token.
ignore_group_shallow(s, left, right, depth) ==
    IF depth > 0
    THEN LET n == self_next(s, "anything")
         IN  IF IsFatal(n) THEN n
             ELSE IF n.v = Punct(right) THEN R("Some", None, n.s)
             ELSE self_ignore_group_loop(n.s, left, right, depth)
    ELSE R("Some", None, s)

\* A faulty group skipper: the end of the file closes every open group.
ignore_group_to_eof(s, left, right, depth) ==
    IF depth > 0
    THEN LET n == self_next(s, "anything")
         IN  IF IsFatal(n) THEN n
             ELSE IF n.v = Eof THEN R("Some", None, n.s)
             ELSE IF n.v = Punct(left)
             THEN self_ignore_group_loop(n.s, left, right, depth + 1)
             ELSE IF n.v = Punct(right)
             THEN self_ignore_group_loop(n.s, left, right, depth - 1)
             ELSE self_ignore_group_loop(n.s, left, right, depth)
    ELSE R("Some", None, s)

\* the while loop of ignore_group
ignore_group_loop(s, left, right, depth) ==
    IF depth > 0
    THEN LET n == self_next(s, "anything")
         IN  IF IsFatal(n) THEN n
             ELSE IF n.v = Punct(left)
             THEN self_ignore_group_loop(again(n.s, "ignore_group", s),
                      left, right, depth + 1)
             ELSE IF n.v = Punct(right)
             THEN self_ignore_group_loop(again(n.s, "ignore_group", s),
                      left, right, depth - 1)
             ELSE self_ignore_group_loop(again(n.s, "ignore_group", s),
                      left, right, depth)
    ELSE R("Some", None, s)

ignore_group(s, left, right) ==
    LET l == self_exact(s, Punct(left))
    IN  IF l.st # "Some" THEN l
        ELSE self_ignore_group_loop(l.s, left, right, 1)

(***************************************************************************)
(* Object tree: the tree grammar                                           *)
(***************************************************************************)
\* A faulty path loop: a '/' with no identifier after it adds an empty segment.
tree_path_loop_empty(s, parts) ==
    LET nx == self_next(s, "path separator")
    IN  IF IsFatal(nx) THEN nx
        ELSE IF nx.v = Punct("Slash")
        THEN LET i == self_ident(nx.s)
             IN  IF IsFatal(i) THEN i
                 ELSE IF i.st = "Some"
                 THEN self_tree_path_loop(i.s, Append(parts, i.v))
                 ELSE self_tree_path_loop(i.s, Append(parts, ""))
        ELSE R("Some", parts, put_back(nx.s, nx.v))

\* the loop of tree_path: ('/' ident)*
tree_path_loop(s, parts) ==
    LET nx == self_next(s, "path separator")
    IN  IF IsFatal(nx) THEN nx
        ELSE IF nx.v = Punct("Slash")
        THEN LET i == self_ident(nx.s)
             IN  IF IsFatal(i) THEN i
                 ELSE IF i.st = "Some"
                 THEN self_tree_path_loop(again(i.s, "tree_path", s),
                          Append(parts, i.v))
                 ELSE self_tree_path_loop(again(i.s, "tree_path", s), parts)
        ELSE R("Some", parts, put_back(nx.s, nx.v))

tree_path(s) ==
    LET slash == self_exact(s, Punct("Slash"))
    IN  IF IsFatal(slash) THEN slash
        ELSE
        LET absolute == slash.st = "Some"
            first == self_ident(slash.s)
        IN  IF IsFatal(first) THEN first
            ELSE IF first.st = "None"
            THEN IF ~absolute THEN R("None", None, first.s)
                 ELSE self_parse_error(first.s)
            ELSE LET parts == self_tree_path_loop(first.s, << first.v >>)
                 IN  IF IsFatal(parts) THEN parts
                     ELSE R("Some", [absolute |-> absolute, parts |-> parts.v],
                            parts.s)


\* tree_entry from "discard list size declaration" on
tree_entry_size(s) ==
    LET nx == self_next(s, "[")
    IN  IF IsFatal(nx) THEN nx
        ELSE IF nx.v = Punct("LBracket")
        THEN require(self_ignore_group(put_back(nx.s, nx.v), "LBracket", "RBracket"))
        ELSE R("Some", None, put_back(nx.s, nx.v))

\* tree_entry from "read the contents for real" on
tree_entry_contents(s, path, new_stack) ==
    LET nx == self_next(s, "contents")
    IN  IF IsFatal(nx) THEN nx
        ELSE IF nx.v = Punct("LBrace")
        THEN LET a == self_add_entry(nx.s, new_stack)
             IN  IF IsFatal(a) THEN a
                 ELSE
                 LET inside == [put_back(a.s, nx.v) EXCEPT
                                   !.blocks = Append(@,
                                       [absolute |-> new_stack.parent = << >>,
                                        parts |-> path])]
                     b == require(self_tree_block(inside, new_stack))
                 IN  IF IsFatal(b) THEN b
                     ELSE R("Some", None, [b.s EXCEPT !.blocks = nx.s.blocks])
        ELSE IF nx.v = Punct("Assign")
        THEN LET expr == require(self_expression(nx.s, FALSE))
             IN  IF IsFatal(expr) THEN expr
                 ELSE
                 LET semi == require(self_exact(expr.s, Punct("Semicolon")))
                 IN  IF IsFatal(semi) THEN semi
                     ELSE LET a == self_add_var(semi.s, new_stack, expr.v)
                          IN  IF IsFatal(a) THEN a
                              ELSE R("Some", None, a.s)
        ELSE IF nx.v = Punct("LParen")
        THEN LET a == self_add_proc(nx.s, new_stack)
             IN  IF IsFatal(a) THEN a
                 ELSE
                 LET args == require(self_ignore_group(put_back(a.s, nx.v),
                                                  "LParen", "RParen"))
                 IN  IF IsFatal(args) THEN args
                     ELSE
                     LET n2 == self_next(args.s, "contents2")
                     IN  IF IsFatal(n2) THEN n2
                         ELSE IF n2.v = Punct("LBrace")
                         THEN LET body == require(self_ignore_group(
                                              put_back(n2.s, n2.v),
                                              "LBrace", "RBrace"))
                              IN  IF IsFatal(body) THEN body
                                  ELSE R("Some", None, body.s)
                         ELSE R("Some", None, put_back(n2.s, n2.v))
        ELSE LET a == self_add_entry(nx.s, new_stack)
             IN  IF IsFatal(a) THEN a
                 ELSE R("Some", None, put_back(a.s, nx.v))

\* A faulty path stack: an absolute path is nested like a relative one.
new_stack_nested(absolute, parent, path) == PathStack(<< parent >>, path)

\* the path stack tree_entry builds for the path it read
new_stack(absolute, parent, path) ==
    PathStack(IF absolute THEN << >> ELSE << parent >>, path)

\* the test that guards the warning of tree_entry
warns(absolute, parent) == absolute /\ parent.parent # << >>

tree_entry(s, parent) ==
    LET tp == self_tree_path(s)
    IN  IF tp.st # "Some" THEN tp
        ELSE
        LET absolute == tp.v.absolute
            path == tp.v.parts
            s0 == [tp.s EXCEPT !.entries = Append(@,
                      [absolute |-> absolute, parts |-> path,
                       blocks |-> tp.s.blocks])]
            s1 == IF warns(absolute, parent)
                  THEN [s0 EXCEPT !.stdout = Append(@,
                           [path |-> path, parent |-> parent,
                            entry |-> Len(s0.entries)])]
                  ELSE s0
            size == self_tree_entry_size(s1)
        IN  IF IsFatal(size) THEN size
            ELSE self_tree_entry_contents(size.s, path,
                                          new_stack(absolute, parent, path))

tree_entries(s, parent, terminator) ==
    LET nx == self_next(noted(s, parent), "newline or " \o Dbg(terminator))
    IN  IF IsFatal(nx) THEN nx
        ELSE IF nx.v = terminator \/ nx.v = Eof THEN R("Some", None, nx.s)
        ELSE IF nx.v = Punct("Semicolon") THEN self_tree_entries(again(nx.s, "tree_entries", s),
                                                   parent, terminator)
        ELSE LET e == require(self_tree_entry(put_back(nx.s, nx.v), parent))
             IN  IF IsFatal(e) THEN e
                 ELSE self_tree_entries(again(e.s, "tree_entries", s),
                          parent, terminator)

tree_block(s, parent) ==
    LET lb == self_exact(noted(s, parent), Punct("LBrace"))
    IN  IF lb.st # "Some" THEN lb
        ELSE require(self_tree_entries(lb.s, parent, Punct("RBrace")))

root(s) == self_tree_entries(s, PathStack(<< >>, << >>), Eof)

\* A faulty parse: it finalizes the tree whatever root returned.
parse_resuming(s) ==
    LET r == self_root(s)
        f == self_finalize(r.s)
    IN  IF IsFatal(r) THEN [r EXCEPT !.s = f.s]
        ELSE IF IsFatal(f) THEN f
        ELSE R("Ok", None, f.s)

\* A faulty parse: it finalizes the tree twice.
parse_twice(s) ==
    LET r == self_root(s)
    IN  IF IsFatal(r) THEN r
        ELSE IF r.st = "None" THEN self_parse_error(r.s)
        ELSE LET f == self_finalize(self_finalize(r.s).s)
             IN  IF IsFatal(f) THEN f
                 ELSE R("Ok", None, f.s)

\* parse, for a parser just built on the input
parse(s) ==
    LET r == self_root(s)
    IN  IF IsFatal(r) THEN r
        ELSE IF r.st = "None" THEN self_parse_error(r.s)
        ELSE LET f == self_finalize(r.s)
             IN  IF IsFatal(f) THEN f
                 ELSE R("Ok", None, f.s)

\* the rule `rule` run on parser state s with the arguments a
dispatch(rule, s, a) ==
    CASE rule = "path_separator" -> path_separator(s)
      [] rule = "prefab_loop" -> prefab_loop(s, a.parts)
      [] rule = "prefab" -> prefab(s)
      [] rule = "expression_loop" -> expression_loop(s, a.expr, a.disallow_assign)
      [] rule = "expression" -> expression(s, a.disallow_assign)
      [] rule = "expression_part_loop" -> expression_part_loop(s, a.bits, a.ops, a.rhs, a.prev_op, a.disallow_assign)
      [] rule = "expression_part" -> expression_part(s, a.lhs, a.prev_op, a.disallow_assign)
      [] rule = "group_unary" -> group_unary(s, a.unary_ops)
      [] rule = "group_follow" -> group_follow(s, a.follows)
      [] rule = "group" -> group(s)
      [] rule = "term_new" -> term_new(s)
      [] rule = "term" -> term(s)
      [] rule = "follow" -> follow(s)
      [] rule = "arguments" -> arguments(s)
      [] rule = "list_arguments" -> list_arguments(s)
      [] rule = "closure" -> closure(s, a.f)
      [] rule = "separated_loop" -> separated_loop(s, a.sep, a.terminator, a.f, a.comma_legal, a.elems)
      [] rule = "separated" -> separated(s, a.sep, a.terminator, a.f)
      [] rule = "ignore_group_loop" -> ignore_group_loop(s, a.left, a.right, a.depth)
      [] rule = "ignore_group" -> ignore_group(s, a.left, a.right)
      [] rule = "tree_path_loop" -> tree_path_loop(s, a.parts)
      [] rule = "tree_path" -> tree_path(s)
      [] rule = "tree_entry_size" -> tree_entry_size(s)
      [] rule = "tree_entry_contents" -> tree_entry_contents(s, a.path, a.new_stack)
      [] rule = "tree_entry" -> tree_entry(s, a.parent)
      [] rule = "tree_entries" -> tree_entries(s, a.parent, a.terminator)
      [] rule = "tree_block" -> tree_block(s, a.parent)
      [] rule = "root" -> root(s)
      [] rule = "next" -> next(s, a.expected)
      [] rule = "parse_error" -> parse_error(s)
      [] rule = "exact" -> exact(s, a.tok)
      [] rule = "ident" -> ident(s)
      [] rule = "add_entry" -> add_entry(s, a.stack)
      [] rule = "add_var" -> add_var(s, a.stack, a.expr)
      [] rule = "add_proc" -> add_proc(s, a.stack)
      [] rule = "finalize" -> finalize(s)

(***************************************************************************)
(* Sequences of items over an alphabet, of length at most n.               *)
(***************************************************************************)
SeqsUpTo(A, n) == UNION { [1..m -> A] : m \in 0..n }

NoCall == [rule |-> "new", arg |-> NoArg, st |-> "", v |-> None]

Called(rule, arg, r) ==
    /\ parser' = r.s
    /\ call' = [rule |-> rule, arg |-> arg, st |-> r.st, v |-> r.v]

\* A parser that was just built: nothing was called on it yet.
Fresh == call.rule = "new"

(***************************************************************************)
(* SpecTok: the token source driven call by call.  MaxTrail caps the       *)
(* trail, which grows with every pull that draws no token.                 *)
(***************************************************************************)
TokAlphabet == { Ident("a"), Punct("Semicolon"), IoErr }

InitTok ==
    /\ \E input \in SeqsUpTo(TokAlphabet, MaxTokLen) : parser = new(input)
    /\ call = NoCall

Live == parser.panic = "" /\ Len(parser.expected) < MaxTrail

DoNext ==
    /\ Live
    /\ \E e \in {"x", "y"} : Called("next", e, self_next(parser, e))

\* put_back is only ever handed the token the caller pulled last.
DoPutBack ==
    /\ Live
    /\ call.rule = "next" /\ call.st = "Ok"
    /\ Called("put_back", call.v, R("", None, put_back(parser, call.v)))

DoParseError ==
    /\ Live
    /\ Called("parse_error", NoArg, self_parse_error(parser))

NextTok == DoNext \/ DoPutBack \/ DoParseError

SpecTok == InitTok /\ [][NextTok]_vars

(***************************************************************************)
(* C6.  Of the pulls next() makes with an empty buffer once the underlying *)
(* token sequence is exhausted, the first returns the Eof token and every  *)
(* later one returns the fatal error "read-after-EOF": Eof is given at     *)
(* most once, and such a pull never reports did-not-match.                 *)
(***************************************************************************)
C6_EofOnceThenFatal ==
    /\ \A i \in 1..Len(parser.past) :
         parser.past[i] = IF i = 1 THEN "Eof" ELSE "read-after-EOF"
    /\ (call.rule = "next" /\ call.st = "Ok" /\ call.v = Eof)
         => parser.past = << "Eof" >>
    /\ call.rule = "next" => call.st \in { "Ok", "Err" }

\* Eof was given, and two later pulls both failed.
C6_Witness ==
    /\ Len(parser.past) = 3
    /\ call.rule = "next" /\ call.st = "Err" /\ call.v.msg = "read-after-EOF"

(***************************************************************************)
(* SpecRules: each grammar rule called once, on a parser just built or on  *)
(* one whose caller has looked at the next token and put it back.          *)
(***************************************************************************)
RuleAlphabet ==
    { Ident("a"), Ident("new"), Ident("list"), Int("1"),
      Punct("Slash"), Punct("Dot"), Punct("LParen"), Punct("RParen"),
      Punct("LBrace"), Punct("LBracket"), Punct("Assign"), Punct("Sub"),
      Punct("Semicolon") }

Peeked(s) ==
    LET nx == self_next(s, "peek")
    IN  IF nx.st = "Ok" THEN put_back(nx.s, nx.v) ELSE nx.s

InitRules ==
    /\ \E input \in SeqsUpTo(RuleAlphabet, MaxRuleLen) :
         parser \in { new(input), Peeked(new(input)) }
    /\ call = NoCall

RootStack == PathStack(<< >>, << >>)

Parents == { RootStack, PathStack(<< RootStack >>, << "p" >>) }

DoExact ==
    /\ Fresh
    /\ \E tok \in { Punct("Semicolon"), Punct("LBrace"), Eof } :
         Called("exact", tok, self_exact(parser, tok))

DoIdent == Fresh /\ Called("ident", NoArg, self_ident(parser))

DoTreePath == Fresh /\ Called("tree_path", NoArg, self_tree_path(parser))

DoTreeEntry ==
    /\ Fresh
    /\ \E parent \in Parents :
         Called("tree_entry", parent, self_tree_entry(parser, parent))

DoTreeBlock ==
    /\ Fresh
    /\ \E parent \in Parents :
         Called("tree_block", parent, self_tree_block(parser, parent))

DoPathSeparator == Fresh /\ Called("path_separator", NoArg, self_path_separator(parser))

DoPrefab == Fresh /\ Called("prefab", NoArg, self_prefab(parser))

DoExpression ==
    /\ Fresh
    /\ \E disallow_assign \in BOOLEAN :
         Called("expression", [disallow_assign |-> disallow_assign],
                self_expression(parser, disallow_assign))

DoGroup == Fresh /\ Called("group", NoArg, self_group(parser))

DoTerm == Fresh /\ Called("term", NoArg, self_term(parser))

DoFollow == Fresh /\ Called("follow", NoArg, self_follow(parser))

DoArguments == Fresh /\ Called("arguments", NoArg, self_arguments(parser))

DoListArguments == Fresh /\ Called("list_arguments", NoArg, self_list_arguments(parser))

DoIgnoreGroup ==
    /\ Fresh
    /\ \E pair \in { <<"LBracket", "RBracket">>, <<"LParen", "RParen">>,
                      <<"LBrace", "RBrace">> } :
         Called("ignore_group", [left |-> pair[1], right |-> pair[2]],
                self_ignore_group(parser, pair[1], pair[2]))

NextRules ==
    \/ DoExact \/ DoIdent \/ DoTreePath \/ DoTreeEntry \/ DoTreeBlock
    \/ DoPathSeparator \/ DoPrefab \/ DoExpression \/ DoGroup \/ DoTerm
    \/ DoFollow \/ DoArguments \/ DoListArguments \/ DoIgnoreGroup

SpecRules == InitRules /\ [][NextRules]_vars

GrammarRules ==
    { "exact", "ident", "tree_path", "tree_entry", "tree_block",
      "path_separator", "prefab", "expression", "group", "term", "follow",
      "arguments", "list_arguments", "ignore_group" }

(***************************************************************************)
(* C4, as stated.  Whenever a grammar rule returns did-not-match, the      *)
(* pushback buffer followed by the unread input is what it was when the    *)
(* rule was entered.                                                       *)
(***************************************************************************)
C4_NoneRestoresBufferAndInput ==
    [][ (call'.rule \in GrammarRules /\ call'.st = "None")
          => Remaining(parser') = Remaining(parser) ]_vars

(***************************************************************************)
(* C4, amended.  Whenever a grammar rule returns did-not-match, the        *)
(* pushback buffer followed by the unread input and by the Eof token, if   *)
(* next() has not given it yet, is what it was when the rule was entered:  *)
(* no token is left consumed; and the rule has registered nothing.         *)
(***************************************************************************)
C4_NoneRestoresTokens ==
    [][ (call'.rule \in GrammarRules /\ call'.st = "None")
          => /\ Stream(parser') = Stream(parser)
             /\ parser'.panic = ""
             /\ parser'.tree = parser.tree ]_vars

\* term, at the end of the input, pulled the Eof token and gave it back
C4_Witness ==
    /\ call.rule = "term" /\ call.st = "None"
    /\ parser.pos = Len(parser.input) /\ Buffered(parser) = << Eof >>

(***************************************************************************)
(* SpecTree: parse run on up to MaxTreeLen tokens of entries and blocks,    *)
(* written inside up to MaxDepth blocks.                                   *)
(***************************************************************************)
DoParse == Fresh /\ Called("parse", NoArg, parse(parser))

TreeAlphabet ==
    { Ident("a"), Punct("Slash"), Punct("Semicolon"), Punct("LBrace"),
      Punct("RBrace"), Punct("Assign"), Punct("LParen") }

\* the tokens of a path
RelPath == << Ident("p") >>
AbsPath == << Punct("Slash"), Ident("q"), Punct("Slash"), Ident("r") >>

RECURSIVE Wrap(_, _)
\* body inside the blocks of the paths in `headers`, outermost first
Wrap(headers, body) ==
    IF headers = << >> THEN body
    ELSE Head(headers) \o << Punct("LBrace") >> \o Wrap(Tail(headers), body)
         \o << Punct("RBrace") >>

InitTree ==
    /\ \E headers \in SeqsUpTo({ RelPath, AbsPath }, MaxDepth),
          body \in SeqsUpTo(TreeAlphabet, MaxTreeLen) :
         parser = new(Wrap(headers, body))
    /\ call = NoCall

SpecTree == InitTree /\ [][DoParse]_vars

RECURSIVE Concat(_)
\* the lists of a list of lists, joined
Concat(lists) ==
    IF lists = << >> THEN << >> ELSE Head(lists) \o Concat(Tail(lists))

PartsOf(blocks) == [i \in 1..Len(blocks) |-> blocks[i].parts]

\* the blocks from the innermost one written with an absolute path on, or
\* all of them when none is
FromInnermostAbsolute(blocks) ==
    LET abs == { i \in 1..Len(blocks) : blocks[i].absolute }
    IN  IF abs = {} THEN blocks
        ELSE SubSeq(blocks, CHOOSE i \in abs : \A j \in abs : j <= i,
                    Len(blocks))

\* the registration calls made so far
Registrations ==
    { i \in 1..Len(parser.tree) :
        parser.tree[i].fn \in { "add_entry", "add_var", "add_proc" } }

(***************************************************************************)
(* C1, as stated.  Every entry with a relative path is registered with the *)
(* segments of ALL the blocks enclosing it, outermost first, followed by   *)
(* its own segments.                                                       *)
(***************************************************************************)
C1_RelativeUnderAllBlocks ==
    \A i \in Registrations :
        LET e == parser.tree[i]
        IN  ~e.absolute => e.path = Concat(PartsOf(e.blocks)) \o e.own

(***************************************************************************)
(* C1, amended.  Every entry with a relative path is registered with the   *)
(* segments of the blocks enclosing it, outermost first, starting at the   *)
(* innermost block written with an absolute path (at the outermost block   *)
(* when none is), followed by its own segments in declaration order.       *)
(***************************************************************************)
C1_RelativeUnderBlocks ==
    \A i \in Registrations :
        LET e == parser.tree[i]
        IN  ~e.absolute
            => e.path = Concat(PartsOf(FromInnermostAbsolute(e.blocks))) \o e.own

\* `/q/r { a { a(`: a procedure inside the block of `a` inside the block
\* of `/q/r`
C1_Witness ==
    \E i \in Registrations :
        LET e == parser.tree[i]
        IN  /\ ~e.absolute /\ e.own = << "a" >> /\ e.fn = "add_proc"
            /\ PartsOf(e.blocks) = << << "q", "r" >>, << "a" >> >>
            /\ e.path = << "q", "r", "a", "a" >>

(***************************************************************************)
(* C2.  An entry whose path starts with '/' is registered with exactly its *)
(* own segments, however many blocks enclose it, and a relative entry      *)
(* directly inside the block of an absolute entry is registered with that  *)
(* entry's segments followed by its own.                                   *)
(***************************************************************************)
C2_AbsoluteFromRoot ==
    \A i \in Registrations :
        LET e == parser.tree[i]
            n == Len(e.blocks)
        IN  /\ e.absolute => e.path = e.own
            /\ (~e.absolute /\ n > 0 /\ e.blocks[n].absolute)
                => e.path = e.blocks[n].parts \o e.own

\* `p { /a { a } }`: `/a` is registered inside the block of `p`, and `a`
\* inside the block of `/a`
C2_Witness ==
    /\ \E i \in Registrations :
         LET e == parser.tree[i]
         IN  /\ e.absolute /\ e.path = << "a" >>
             /\ PartsOf(e.blocks) = << << "p" >> >>
    /\ \E i \in Registrations :
         LET e == parser.tree[i]
         IN  /\ ~e.absolute /\ e.path = << "a", "a" >>
             /\ PartsOf(e.blocks) = << << "p" >>, << "a" >> >>

\* the i-th path that tree_entry read came with a warning
Warned(i) == \E w \in 1..Len(parser.stdout) : parser.stdout[w].entry = i

AbsEntry == << Punct("Slash"), Ident("a"), Punct("Semicolon") >>

(***************************************************************************)
(* C3, as stated.  Every absolute-path entry that tree_entry reads inside  *)
(* a block comes with a warning, whether the block's own path is relative  *)
(* or absolute, and is accepted; one read at the root level comes with no  *)
(* warning.                                                                *)
(***************************************************************************)
C3_AbsoluteInBlockWarns ==
    /\ \A i \in 1..Len(parser.entries) :
         LET e == parser.entries[i]
         IN  e.absolute => (Warned(i) <=> e.blocks # << >>)
    /\ \A headers \in SeqsUpTo({ RelPath, AbsPath }, MaxDepth) :
         (call.rule = "parse" /\ parser.input = Wrap(headers, AbsEntry))
           => call.st = "Ok"

(***************************************************************************)
(* SpecParse: parse run on root-level entries and on variable initializers. *)
(***************************************************************************)
InitAlphabet ==
    { Ident("a"), Ident("list"), Int("1"), Punct("Mul"), Punct("Add"),
      Punct("Assign"), Punct("LParen"), Punct("RParen"), Punct("Slash"),
      Punct("Semicolon") }

InitParse ==
    /\ \/ \E body \in SeqsUpTo(TreeAlphabet, MaxTreeLen) : parser = new(body)
       \/ \E init \in SeqsUpTo(InitAlphabet, MaxInitLen) :
            parser = new(<< Ident("v"), Punct("Assign") >> \o init)
    /\ call = NoCall

SpecParse == InitParse /\ [][DoParse]_vars

(***************************************************************************)
(* C5.  Whatever the input, parse never calls put_back while a token is    *)
(* buffered: the panic "cannot put_back twice" does not happen, on the way *)
(* through parse_error included.                                           *)
(***************************************************************************)
C5_NeverPutBackTwice == parser.panic # "cannot put_back twice"

\* `v = 1 * 1 +`: the weaker operator is put back by expression_part, read
\* again, and the missing operand is reported by parse_error, which reads
\* the Eof token and puts it back
C5_Witness ==
    /\ call.rule = "parse" /\ call.st = "Err" /\ call.v.msg = "got"
    /\ parser.input = << Ident("v"), Punct("Assign"), Int("1"), Punct("Mul"),
                         Int("1"), Punct("Add") >>
    /\ parser.next = Eof

(***************************************************************************)
(* SpecExpr: expression run on operand/operator sequences                  *)
(* g0 op1 g1 ... opn gn with n <= MaxOps; the operands are 1, 2, 3, ...    *)
(***************************************************************************)
Operands ==
    << Int("1"), Int("2"), Int("3"), Int("4"), Int("5"), Int("6"), Int("7") >>

\* operator tokens: two of each of three strengths, an alias, and two
\* assignments
ExprOps ==
    { "Pow", "Mul", "Slash", "Add", "Sub", "LessGreater", "Or", "Assign",
      "AddAssign" }

ExprInput(ops) ==
    [ i \in 1..(2 * Len(ops) + 1) |->
        IF i % 2 = 1 THEN Operands[(i + 1) \div 2] ELSE Punct(ops[i \div 2]) ]

InitExpr ==
    /\ \E ops \in SeqsUpTo(ExprOps, MaxOps) : parser = new(ExprInput(ops))
    /\ call = NoCall

SpecExpr == InitExpr /\ [][DoExpression]_vars

\* the operator an operator token stands for
AstName(x) ==
    CASE x = "Slash" -> "Div" [] x = "LessGreater" -> "NotEq" [] OTHER -> x

IsAssign(op) == op \in { "Assign", "AddAssign" }

\* the expressions of the claims, written out
Leaf(i) ==
    [ e |-> "Base", unary |-> << >>,
      term |-> [t |-> "Int", lit |-> Operands[i].v], follow |-> << >> ]

Node(op, lhs, rhs) ==
    [ e |-> IF IsAssign(op) THEN "AssignOp" ELSE "BinaryOp", op |-> op,
      lhs |-> lhs, rhs |-> rhs ]

IsOp(e) == e.e \in { "BinaryOp", "AssignOp" }

RECURSIVE OpNodes(_)
\* the operator nodes of an expression
OpNodes(e) ==
    IF IsOp(e) THEN { e } \cup OpNodes(e.lhs) \cup OpNodes(e.rhs) ELSE {}

RECURSIVE InOrder(_)
\* operands and operators of an expression, left to right
InOrder(e) ==
    IF IsOp(e)
    THEN InOrder(e.lhs) \o << [k |-> "Op", v |-> e.op] >> \o InOrder(e.rhs)
    ELSE << [k |-> e.term.t, v |-> e.term.lit] >>

\* a token sequence, with each operator token named as in the tree
Items(toks) ==
    [ i \in 1..Len(toks) |->
        IF toks[i].k = "Punct" THEN [k |-> "Op", v |-> AstName(toks[i].v)]
        ELSE toks[i] ]

\* the strength the table gives the operator of a node
StrengthOf(e) ==
    LET i == CHOOSE j \in 1..Len(BINARY_OPS) :
                 BINARY_OPS[j].oper = [kind |-> e.e, op |-> e.op]
    IN  BINARY_OPS[i].strength

\* the operator tokens of the input
OpsOf(input) == [ i \in 1..((Len(input) - 1) \div 2) |-> input[2 * i].v ]

SameStrength(ops) ==
    \A i, j \in 1..Len(ops) : find(ops[i])[1].strength = find(ops[j])[1].strength

RECURSIVE LeftFold(_, _)
\* opn(...op2(op1(g0, g1), g2)..., gn) for the first n operators
LeftFold(ops, n) ==
    IF n = 0 THEN Leaf(1)
    ELSE Node(AstName(ops[n]), LeftFold(ops, n - 1), Leaf(n + 1))

RECURSIVE RightFold(_, _)
\* opk(g(k-1), ...opn(g(n-1), gn)...) for the operators from the k-th on
RightFold(ops, k) ==
    IF k > Len(ops) THEN Leaf(k)
    ELSE Node(AstName(ops[k]), Leaf(k), RightFold(ops, k + 1))

Parsed == call.rule = "expression" /\ call.st = "Some"

(***************************************************************************)
(* C7.  The tree expression returns for an operand/operator sequence keeps *)
(* operands and operators in input order (its in-order traversal, followed *)
(* by what is left unread, is the input), no operator node has a child     *)
(* whose operator is weaker than its own, and the whole sequence is taken  *)
(* unless assignment is disallowed: `1 + 2 * 3` gives Add(1, Mul(2, 3))    *)
(* and `1 * 2 + 3` gives Add(Mul(1, 2), 3).                                *)
(***************************************************************************)
C7_StrongerBindsFirst ==
    Parsed =>
      /\ InOrder(call.v) \o Items(Stream(parser))
           = Items(parser.input) \o << Eof >>
      /\ ~call.arg.disallow_assign => Stream(parser) = << Eof >>
      /\ \A n \in OpNodes(call.v) :
           /\ IsOp(n.lhs) => StrengthOf(n.lhs) >= StrengthOf(n)
           /\ IsOp(n.rhs) => StrengthOf(n.rhs) >= StrengthOf(n)
      /\ parser.input = ExprInput(<< "Add", "Mul" >>)
           => call.v = Node("Add", Leaf(1), Node("Mul", Leaf(2), Leaf(3)))
      /\ parser.input = ExprInput(<< "Mul", "Add" >>)
           => call.v = Node("Add", Node("Mul", Leaf(1), Leaf(2)), Leaf(3))

\* `1 + 2 * 3 ** 4 - 5`: three strengths, the weakest on both sides
C7_Witness ==
    /\ Parsed
    /\ parser.input = ExprInput(<< "Add", "Mul", "Pow", "Sub" >>)
    /\ call.v = Node("Sub",
                     Node("Add", Leaf(1),
                          Node("Mul", Leaf(2), Node("Pow", Leaf(3), Leaf(4)))),
                     Leaf(5))

(***************************************************************************)
(* C8.  A run of non-assignment operators of equal strength folds left: a  *)
(* sequence that is one such run gives opn(...op1(g0, g1)..., gn), and in  *)
(* any tree the right operand of a non-assignment operator is never an     *)
(* operator of the same strength, so the same holds of runs whose operands *)
(* are stronger sub-expressions.  `1 - 2 - 3` gives Sub(Sub(1, 2), 3).     *)
(***************************************************************************)
C8_EqualStrengthFoldsLeft ==
    Parsed =>
      LET ops == OpsOf(parser.input)
      IN  /\ (Len(ops) >= 1 /\ SameStrength(ops) /\ ~IsAssign(ops[1]))
               => call.v = LeftFold(ops, Len(ops))
          /\ \A n \in OpNodes(call.v) :
               (n.e = "BinaryOp" /\ IsOp(n.rhs))
                 => StrengthOf(n.rhs) > StrengthOf(n)
          /\ ops = << "Sub", "Sub" >>
               => call.v = Node("Sub", Node("Sub", Leaf(1), Leaf(2)), Leaf(3))

\* `1 - 2 * 3 + 4 - 5`: a run of three, one operand a stronger sub-expression
C8_Witness ==
    /\ Parsed
    /\ parser.input = ExprInput(<< "Sub", "Mul", "Add", "Sub" >>)
    /\ call.v = Node("Sub",
                     Node("Add",
                          Node("Sub", Leaf(1), Node("Mul", Leaf(2), Leaf(3))),
                          Leaf(4)),
                     Leaf(5))

(***************************************************************************)
(* C9.  A run of assignment operators folds right: a sequence that is one  *)
(* such run gives op1(g0, op2(g1, ...opn(g(n-1), gn)...)), each operator   *)
(* with the operand that preceded it, and in any tree the left operand of  *)
(* an assignment is never an assignment.  `1 = 2 = 3` gives                *)
(* Assign(1, Assign(2, 3)) and `1 = 2 += 3` gives                          *)
(* Assign(1, AddAssign(2, 3)).                                             *)
(***************************************************************************)
C9_AssignmentFoldsRight ==
    (Parsed /\ ~call.arg.disallow_assign) =>
      LET ops == OpsOf(parser.input)
      IN  /\ (Len(ops) >= 1 /\ \A i \in 1..Len(ops) : IsAssign(ops[i]))
               => call.v = RightFold(ops, 1)
          /\ \A n \in OpNodes(call.v) :
               n.e = "AssignOp" => ~(IsOp(n.lhs) /\ n.lhs.e = "AssignOp")
          /\ ops = << "Assign", "Assign" >>
               => call.v = Node("Assign", Leaf(1),
                                Node("Assign", Leaf(2), Leaf(3)))
          /\ ops = << "Assign", "AddAssign" >>
               => call.v = Node("Assign", Leaf(1),
                                Node("AddAssign", Leaf(2), Leaf(3)))

\* `1 = 2 += 3 = 4 += 5`
C9_Witness ==
    /\ Parsed /\ ~call.arg.disallow_assign
    /\ parser.input = ExprInput(<< "Assign", "AddAssign", "Assign", "AddAssign" >>)
    /\ call.v = Node("Assign", Leaf(1),
                     Node("AddAssign", Leaf(2),
                          Node("Assign", Leaf(3),
                               Node("AddAssign", Leaf(4), Leaf(5)))))

(***************************************************************************)
(* SpecProc: tree_entry run on procedure entries `path ( args ) { body }`  *)
(* followed by other tokens, the parentheses of args and the braces of     *)
(* body balanced; the tree accepts the registration or rejects it.         *)
(***************************************************************************)
\* args may hold braces and body parentheses, balanced or not
ArgAlphabet == { Ident("a"), Punct("LParen"), Punct("RParen"), Punct("LBrace") }
BodyAlphabet == { Ident("a"), Punct("LBrace"), Punct("RBrace"), Punct("RParen") }

RECURSIVE Depth(_, _, _)
\* how many `left` tokens of toks are still open at its end; -1 if a `right`
\* token closes nothing
Depth(toks, left, right) ==
    IF toks = << >> THEN 0
    ELSE LET n == Len(toks)
             d == Depth(SubSeq(toks, 1, n - 1), left, right)
         IN  IF d < 0 THEN d
             ELSE IF toks[n] = Punct(left) THEN d + 1
             ELSE IF toks[n] = Punct(right) THEN d - 1
             ELSE d

Balanced(toks, left, right) == Depth(toks, left, right) = 0

ProcPaths ==
    { << Ident("f") >>,
      << Punct("Slash"), Ident("f"), Punct("Slash"), Ident("g") >> }

Proc(path, args, body) ==
    path \o << Punct("LParen") >> \o args \o << Punct("RParen"), Punct("LBrace") >>
    \o body \o << Punct("RBrace") >>

Tails == { << >>, << Ident("a") >>, << Punct("RBrace") >> }

InitProc ==
    /\ \E path \in ProcPaths, tail \in Tails, reject \in 0..1,
          args \in { a \in SeqsUpTo(ArgAlphabet, MaxGroupLen) :
                       Balanced(a, "LParen", "RParen") },
          body \in { b \in SeqsUpTo(BodyAlphabet, MaxGroupLen) :
                       Balanced(b, "LBrace", "RBrace") } :
         parser = [new(Proc(path, args, body) \o tail) EXCEPT !.rejectAt = reject]
    /\ call = NoCall

SpecProc == InitProc /\ [][DoTreeEntry]_vars

\* the index in toks of the `right` token that closes the `left` token at i
CloserOf(toks, i, left, right) ==
    CHOOSE j \in (i + 1)..Len(toks) :
        /\ toks[j] = Punct(right)
        /\ Balanced(SubSeq(toks, i + 1, j - 1), left, right)
        /\ \A k \in (i + 1)..(j - 1) :
             Depth(SubSeq(toks, i + 1, k), left, right) >= 0

\* the index of the first `tok` in toks
FirstOf(toks, tok) ==
    CHOOSE i \in 1..Len(toks) : toks[i] = tok /\ \A j \in 1..(i - 1) : toks[j] # tok

\* where the procedure entry at the start of toks ends
ProcEnd(toks) ==
    LET rp == CloserOf(toks, FirstOf(toks, Punct("LParen")), "LParen", "RParen")
    IN  CloserOf(toks, rp + 1, "LBrace", "RBrace")

(***************************************************************************)
(* C10.  On a procedure entry `path ( args ) { body }` with balanced args  *)
(* and body, tree_entry makes exactly one registration call, add_proc with *)
(* the resolved path, and, the tree accepting it, succeeds having consumed *)
(* exactly the tokens up to the ')' that closes the '(' and on to the '}'  *)
(* that closes the body's '{', whatever args and body contain.             *)
(***************************************************************************)
C10_ProcBodySkipped ==
    call.rule = "tree_entry" =>
      LET own == IF parser.input[1] = Punct("Slash")
                 THEN << "f", "g" >> ELSE << "f" >>
          resolved == IF parser.input[1] = Punct("Slash") THEN own
                      ELSE call.arg.parts \o own
      IN  /\ Len(parser.tree) = 1
          /\ parser.tree[1].fn = "add_proc"
          /\ parser.tree[1].path = resolved
          /\ parser.rejectAt # 1
               => /\ call.st = "Some"
                  /\ parser.next = None
                  /\ parser.pos = ProcEnd(parser.input)

\* args `(a)` and body `{a}` both hold a nested group, and a token follows
C10_Witness ==
    /\ call.rule = "tree_entry" /\ call.st = "Some"
    /\ parser.input =
         Proc(<< Ident("f") >>,
              << Punct("LParen"), Ident("a"), Punct("RParen") >>,
              << Punct("LBrace"), Ident("a"), Punct("RBrace") >>)
         \o << Ident("a") >>
    /\ parser.pos = 11 /\ Len(parser.tree) = 1

(***************************************************************************)
(* SpecFail: parse run on up to MaxFailLen tokens among which the token     *)
(* source may fail, with an object tree that may reject one of its calls.   *)
(***************************************************************************)
MaxFailLen == 4
MaxReject == 2

FailAlphabet == TreeAlphabet \cup { IoErr }

InitFail ==
    /\ \E input \in SeqsUpTo(FailAlphabet, MaxFailLen), n \in 0..MaxReject :
         parser = [new(input) EXCEPT !.rejectAt = n]
    /\ call = NoCall

SpecFail == InitFail /\ [][DoParse]_vars

\* C11: once a token pull, a grammar rule or a call on the object tree has
\* raised a fatal error, parse returns that error and the object tree gets
\* no further call; parse succeeds only when no fatal error was raised.
C11_FirstFatalErrorIsReturned ==
    call.rule = "parse" =>
        /\ (parser.errors = << >>) <=> (call.st = "Ok")
        /\ parser.errors # << >> =>
              /\ call.st = "Err"
              /\ call.v = parser.errors[1].err
              /\ Len(parser.tree) = parser.errors[1].calls

\* the token source fails after a registration, with entries still unread
C11_Witness ==
    /\ call.rule = "parse" /\ call.st = "Err"
    /\ call.v.msg = "io"
    /\ Len(parser.tree) = 1
    /\ parser.pos < Len(parser.input)

\* the calls of finalize among the calls made on the object tree
Finalizes == { i \in 1..Len(parser.tree) : parser.tree[i].fn = "finalize" }

\* the root entry list has read the whole input and the Eof sentinel
RootCompleted ==
    /\ parser.pos = Len(parser.input) /\ parser.eof /\ parser.next = None
    /\ \A i \in 1..Len(parser.errors) : parser.errors[i].err.msg = "rejected"

\* C12: a successful parse calls finalize exactly once, as the last call on
\* the object tree and with the end of file consumed; finalize is never
\* followed by a registration and never called when root did not complete.
C12_FinalizeOnceAtEnd ==
    call.rule = "parse" =>
        /\ call.st = "Ok" => Finalizes = { Len(parser.tree) } /\ RootCompleted
        /\ Finalizes \subseteq { Len(parser.tree) }
        /\ Finalizes # { } => RootCompleted

\* a successful parse that made two registrations before finalize
C12_Witness ==
    /\ call.rule = "parse" /\ call.st = "Ok"
    /\ Len(parser.tree) = 3
    /\ parser.tree[3].fn = "finalize"
    /\ parser.tree[2].fn = "add_entry"
    /\ parser.pos = 4

(***************************************************************************)
(* SpecGroup: ignore_group called once on an opening parenthesis followed   *)
(* by up to MaxSkipLen tokens, closed or not.                               *)
(***************************************************************************)
MaxSkipLen == 4

InitGroup ==
    /\ \E toks \in SeqsUpTo(ArgAlphabet \cup { Punct("RBrace") }, MaxSkipLen) :
         parser \in { new(<< Punct("LParen") >> \o toks),
                      Peeked(new(<< Punct("LParen") >> \o toks)) }
    /\ call = NoCall

SpecGroup == InitGroup /\ [][DoIgnoreGroup]_vars

\* the group that toks opens with `left` is closed nowhere in toks
Unterminated(toks, left, right) ==
    /\ toks # << >> /\ toks[1] = Punct(left)
    /\ \A k \in 1..Len(toks) : Depth(SubSeq(toks, 1, k), left, right) # 0

\* C13: ignore_group called on a group that is closed nowhere in the
\* remaining tokens consumes them all, is given Eof, and returns the fatal
\* error of the pull after Eof; it does not return matched.
C13_UnterminatedGroupIsFatal ==
    [][ ( /\ call'.rule = "ignore_group"
          /\ Unterminated(Remaining(parser), call'.arg.left, call'.arg.right) )
          => /\ call'.st = "Err"
             /\ call'.v.msg = "read-after-EOF"
             /\ Remaining(parser') = << >>
             /\ parser'.eof
             /\ parser'.past = parser.past \o << "Eof", "read-after-EOF" >> ]_vars

\* `( a ( a )` : the inner group is closed, the outer one is not
C13_Witness ==
    /\ call.rule = "ignore_group" /\ call.st = "Err"
    /\ call.v.msg = "read-after-EOF"
    /\ parser.input = << Punct("LParen"), Ident("a"), Punct("LParen"),
                         Ident("a"), Punct("RParen") >>
    /\ parser.pos = 5

(***************************************************************************)
(* SpecPath: tree_path, or parse, run on up to MaxPathLen tokens of paths   *)
(* with separators in any position.                                         *)
(***************************************************************************)
MaxPathLen == 4

PathAlphabet ==
    { Ident("a"), Ident("b"), Punct("Slash"), Punct("Semicolon"),
      Punct("LBrace"), Punct("RBrace") }

InitPath ==
    /\ \E input \in SeqsUpTo(PathAlphabet, MaxPathLen) : parser = new(input)
    /\ call = NoCall

NextPath == DoTreePath \/ DoParse

SpecPath == InitPath /\ [][NextPath]_vars

IsIdent(tok) == tok.k = "Ident"

\* the texts of the identifier tokens of toks, in order
Texts(toks) ==
    LET ids == SelectSeq(toks, IsIdent)
    IN  [i \in 1..Len(ids) |-> ids[i].v]

\* the tokens that the step has consumed
Consumed == SubSeq(Stream(parser), 1, Len(Stream(parser)) - Len(Stream(parser')))

\* C14: when tree_path matches, it has consumed identifiers and '/' tokens
\* only, its segments are the texts of the identifiers consumed, in order
\* (a '/' with no identifier after it adds no segment and raises no error),
\* and the token left as the next one is not a '/'; every segment of every
\* path registered by parse is the text of an identifier token of the input.
C14_SegmentsAreIdentifiers ==
    [][ /\ (call'.rule = "tree_path" /\ call'.st = "Some")
            => /\ Stream(parser) = Consumed \o Stream(parser')
               /\ \A i \in 1..Len(Consumed) :
                     IsIdent(Consumed[i]) \/ Consumed[i] = Punct("Slash")
               /\ call'.v.parts = Texts(Consumed)
               /\ call'.v.parts # << >>
               /\ Stream(parser') # << >>
               /\ Head(Stream(parser')) # Punct("Slash")
               /\ parser'.errors = << >>
        /\ call'.rule = "parse"
            => \A i \in 1..Len(parser'.tree) :
                 \A j \in 1..Len(parser'.tree[i].path) :
                   \E k \in 1..Len(parser'.input) :
                     parser'.input[k] = Ident(parser'.tree[i].path[j]) ]_vars

\* `a/b/` has matched with the segments a and b
C14_Witness ==
    /\ call.rule = "tree_path" /\ call.st = "Some"
    /\ parser.input = << Ident("a"), Punct("Slash"), Ident("b"), Punct("Slash") >>
    /\ call.v.parts = << "a", "b" >>
    /\ parser.next = Eof

(***************************************************************************)
(* SpecAssign: expression run on operand/operator sequences with '=' among  *)
(* the operators, bare, in parentheses or as the entry of a list(...), and  *)
(* followed or not by a further '='.                                        *)
(***************************************************************************)
MaxAssignOps == 3

AssignOps == { "Mul", "Add", "Assign", "AddAssign" }

Wraps ==
    { [pre |-> << >>, post |-> << >>],
      [pre |-> << Punct("LParen") >>, post |-> << Punct("RParen") >>],
      [pre |-> << Ident("list"), Punct("LParen") >>, post |-> << Punct("RParen") >>] }

AssignTails == { << >>, << Punct("Assign"), Int("9") >> }

InitAssign ==
    /\ \E ops \in SeqsUpTo(AssignOps, MaxAssignOps), w \in Wraps,
          tail \in AssignTails :
         parser = new(w.pre \o ExprInput(ops) \o w.post \o tail)
    /\ call = NoCall

SpecAssign == InitAssign /\ [][DoExpression]_vars

\* the places of toks that hold a '=' outside parentheses
TopAssigns(toks) ==
    { k \in 1..Len(toks) :
        /\ toks[k] = Punct("Assign")
        /\ Depth(SubSeq(toks, 1, k - 1), "LParen", "RParen") = 0 }

\* C15: expression called with assignment disallowed consumes no '=' that
\* stands outside parentheses; when there is one, it returns matched with
\* that '=' as the next token and raises no error, and its result has no
\* Assign node outside its terms; the entry of `list(k = v)` is the pair of
\* k, parsed without assignment, and v.
C15_AssignLeftUnconsumed ==
    [][ (call'.rule = "expression" /\ call'.arg.disallow_assign)
          => /\ TopAssigns(Consumed) = { }
             /\ TopAssigns(Stream(parser)) # { }
                 => /\ call'.st = "Some"
                    /\ parser'.errors = << >>
                    /\ Stream(parser) = Consumed \o Stream(parser')
                    /\ Head(Stream(parser')) = Punct("Assign")
             /\ call'.st = "Some"
                 => \A n \in OpNodes(call'.v) : n.op # "Assign"
             /\ ( /\ call'.st = "Some" /\ ~IsOp(call'.v)
                  /\ call'.v.term.t = "List" )
                 => LET entry == call'.v.term.list[1]
                        inner == SubSeq(parser.input, 3, Len(parser.input))
                        close == CHOOSE k \in 1..Len(inner) :
                                   /\ inner[k] = Punct("RParen")
                                   /\ Depth(SubSeq(inner, 1, k - 1),
                                            "LParen", "RParen") = 0
                        ends == TopAssigns(inner) \cup { close }
                        key == CHOOSE k \in ends : \A j \in ends : k <= j
                    IN  /\ Len(call'.v.term.list) = 1
                        /\ \A n \in OpNodes(entry[1]) : n.op # "Assign"
                        /\ InOrder(entry[1]) = Items(SubSeq(inner, 1, key - 1))
                        /\ (entry[2] # << >>) <=> (TopAssigns(inner) # { })
                        /\ entry[2] # << >>
                            => InOrder(entry[2][1])
                                 = Items(SubSeq(inner, key + 1, close - 1)) ]_vars

\* `1 + 2 * 3 = 4` : the '=' is met inside the part that reads `* 3`
C15_Witness ==
    /\ call.rule = "expression" /\ call.st = "Some"
    /\ call.arg.disallow_assign
    /\ parser.input = ExprInput(<< "Add", "Mul", "Assign" >>)
    /\ call.v = Node("Add", Leaf(1), Node("Mul", Leaf(2), Leaf(3)))
    /\ parser.next = Punct("Assign")

(***************************************************************************)
(* Path stack chains, under SpecTree.                                      *)
(***************************************************************************)
RECURSIVE Bottom(_)
\* the node at which the chain of parent links from `node` ends
Bottom(node) == IF node.parent = << >> THEN node ELSE Bottom(node.parent[1])

FirstCall == parser'.tree[Len(parser.tree) + 1].fn

\* the last token that the step has consumed
LastConsumed == Consumed[Len(Consumed)]

\* C17.  When tree_entry matches, the token after the path and the array
\* size is ';', '{', '=' or '(' (of these only ';' is left unconsumed, by an
\* entry that opened no block), and the ')' that ends the arguments of a
\* procedure with no body is followed by ';'.
C17_OnlyFiveForms ==
    [][ (call'.rule = "tree_entry" /\ call'.st = "Some")
          => /\ ( /\ FirstCall = "add_entry"
                  /\ LastConsumed \notin { Punct("RBrace"), Eof } )
                 => Head(Stream(parser')) = Punct("Semicolon")
             /\ (FirstCall = "add_proc" /\ LastConsumed = Punct("RParen"))
                 => Head(Stream(parser')) = Punct("Semicolon") ]_vars

(***************************************************************************)
(* SpecOps: the operator lookup of expression run on two punctuation       *)
(* tokens, every token of the table and some that are not in it.           *)
(***************************************************************************)
Puncts ==
    { BINARY_OPS[i].token : i \in 1..Len(BINARY_OPS) }
    \cup { "Semicolon", "Comma", "Dot", "Not", "LParen" }

InitOps ==
    /\ \E p \in Puncts, q \in Puncts : parser = new(<< Punct(p), Punct(q) >>)
    /\ call = NoCall

DoOperator ==
    /\ Fresh
    /\ \E disallow_assign \in BOOLEAN :
         Called("operator", [disallow_assign |-> disallow_assign],
                R("", << operator(parser.input[1], disallow_assign),
                         operator(parser.input[2], disallow_assign) >>, parser))

SpecOps == InitOps /\ [][DoOperator]_vars

IsAssignment(info) == info.oper.kind = "AssignOp"

\* the entries of the table for the punctuation p
EntriesOf(p) == { i \in 1..Len(BINARY_OPS) : BINARY_OPS[i].token = p }

\* C18: of any two operators found in the table, two assignments have the
\* same strength, an assignment is weaker than a non-assignment, an
\* operator is right-binding exactly if it is an assignment, and two
\* operators of the same strength bind the same way; every punctuation has
\* at most one entry in the table.
C18_TableIsConsistent ==
    call.rule = "operator" =>
        /\ \A k \in 1..2 : Cardinality(EntriesOf(parser.input[k].v)) <= 1
        /\ (call.v[1] # << >> /\ call.v[2] # << >>) =>
             LET a == call.v[1][1]
                 b == call.v[2][1]
             IN  /\ (IsAssignment(a) /\ IsAssignment(b))
                       => a.strength = b.strength
                 /\ (IsAssignment(a) /\ ~IsAssignment(b))
                       => a.strength < b.strength
                 /\ a.right_binding <=> IsAssignment(a)
                 /\ b.right_binding <=> IsAssignment(b)
                 /\ a.strength = b.strength
                       => a.right_binding = b.right_binding

\* '>>=' and '||' looked up: the weakest of the other operators is stronger
C18_Witness ==
    /\ call.rule = "operator"
    /\ parser.input = << Punct("RShiftAssign"), Punct("Or") >>
    /\ call.v[1] # << >> /\ call.v[2] # << >>
    /\ IsAssignment(call.v[1][1]) /\ call.v[1][1].right_binding
    /\ ~IsAssignment(call.v[2][1]) /\ ~call.v[2][1].right_binding
    /\ call.v[1][1].strength < call.v[2][1].strength

(***************************************************************************)
(* Location and trail, under SpecTok.                                      *)
(***************************************************************************)
\* the step draws a token fresh from the input
FreshDraw ==
    /\ parser.next = None
    /\ parser.pos < Len(parser.input)
    /\ parser.input[parser.pos + 1] # IoErr

\* C19: the location changes only in a step whose next() draws a token
\* fresh from the input, and then it is the location of that token;
\* put_back, a next() that replays the buffered token, one that is given
\* Eof and one that fails leave it unchanged.
C19_LocationFollowsFreshDraws ==
    [][ /\ call'.rule \in { "next", "parse_error" }
            => IF FreshDraw
               THEN /\ parser'.location = parser.pos + 1
                    /\ parser'.pos = parser.pos + 1
               ELSE parser'.location = parser.location
        /\ call'.rule = "put_back" => parser'.location = parser.location
        /\ (call'.rule = "next" /\ parser.next # None)
            => parser'.location = parser.location /\ call'.v = parser.next
        /\ (call'.rule = "next" /\ parser.next = None /\ call'.st = "Ok"
              /\ call'.v = Eof)
            => parser'.location = parser.location
        /\ (call'.rule = "next" /\ call'.st = "Err")
            => parser'.location = parser.location ]_vars

\* a token drawn, then a pull that fails: the location is still the token's
C19_Witness ==
    /\ call.rule = "next" /\ call.st = "Err" /\ call.v.msg = "io"
    /\ parser.pos = 2
    /\ parser.location = 1

\* the trail after a pull described as e
TrailAfter(e) == (IF FreshDraw THEN << >> ELSE parser.expected) \o << e >>

\* C20: every next() appends its description to the trail, after emptying
\* the trail if it draws a token fresh from the input and only then (not
\* when it replays the buffered token, is given Eof, or fails); put_back
\* leaves the trail alone; parse_error reports the trail as it stands when
\* it is called, before its own pull, described as "", is added.
C20_TrailSinceLastFreshDraw ==
    [][ /\ call'.rule = "next" => parser'.expected = TrailAfter(call'.arg)
        /\ call'.rule = "put_back" => parser'.expected = parser.expected
        /\ call'.rule = "parse_error"
            => /\ call'.v.expected = parser.expected
               /\ parser'.expected = TrailAfter("") ]_vars

\* a fresh draw, a put_back, a replay, then parse_error at the end of input
C20_Witness ==
    /\ call.rule = "parse_error"
    /\ call.v.expected = << "x", "y" >>
    /\ parser.expected = << "x", "y", "" >>
    /\ parser.pos = 1 /\ parser.next = Eof

(***************************************************************************)
(* SpecEntry: tree_entry called once on up to MaxEntryLen tokens of        *)
(* entries of every form, complete or cut short.                           *)
(***************************************************************************)
MaxEntryLen == 4

EntryAlphabet ==
    { Ident("a"), Int("1"), Punct("Semicolon"), Punct("LBrace"),
      Punct("RBrace"), Punct("Assign"), Punct("LParen"), Punct("RParen") }

InitEntry ==
    /\ \E input \in SeqsUpTo(EntryAlphabet, MaxEntryLen) : parser = new(input)
    /\ call = NoCall

SpecEntry == InitEntry /\ [][DoTreeEntry]_vars

\* the calls that the step has made on the object tree for the entry itself,
\* not for the entries of its block
OwnCalls ==
    { i \in (Len(parser.tree) + 1)..Len(parser'.tree) :
        parser'.tree[i].blocks = parser.blocks }

\* the token that follows the path of the entry
AfterPath == Stream(parser)[Len(parser'.entries[1].parts) * 2]

\* C21: a tree_entry that matches has made exactly one call on the object
\* tree for its own path, before any call for the entries of its block:
\* add_var after '=', add_proc after '(' and add_entry otherwise; one that
\* does not match has made none; add_var is called with the initializer and
\* with the ';' after it as the last token read, so that no variable is
\* registered when the ';' is missing, which is fatal.
C21_OneRegistrationPerEntry ==
    [][ call'.rule = "tree_entry"
          => /\ call'.st = "Some"
                 => /\ OwnCalls = { Len(parser.tree) + 1 }
                    /\ parser'.tree[Len(parser.tree) + 1].own
                         = parser'.entries[1].parts
                    /\ FirstCall =
                         CASE AfterPath = Punct("Assign") -> "add_var"
                           [] AfterPath = Punct("LParen") -> "add_proc"
                           [] OTHER -> "add_entry"
             /\ call'.st = "None" => parser'.tree = parser.tree
             /\ \A i \in 1..Len(parser'.tree) :
                   parser'.tree[i].fn = "add_var"
                     => /\ parser'.tree[i].expr # NoExpr
                        /\ parser.input[parser'.tree[i].loc] = Punct("Semicolon")
             /\ ( /\ parser'.entries # << >>
                  /\ AfterPath = Punct("Assign")
                  /\ \A k \in 1..Len(parser.input) :
                       parser.input[k] # Punct("Semicolon") )
                 => call'.st = "Err" /\ parser'.tree = << >> ]_vars

\* `a = 1` and the end of the input: fatal, and nothing is registered
C21_Witness ==
    /\ call.rule = "tree_entry" /\ call.st = "Err"
    /\ parser.input = << Ident("a"), Punct("Assign"), Int("1") >>
    /\ call.v.msg = "got" /\ call.v.got = Eof
    /\ parser.tree = << >>

(***************************************************************************)
(* Blocks left open at the end of the input, under SpecTree.               *)
(***************************************************************************)
\* a '{' of the input is closed by no '}'
OpenAtEnd == Depth(parser.input, "LBrace", "RBrace") > 0

\* C22, as stated.  When parse has reached the end of an input that leaves
\* a block open, it returns the fatal error of the pull after Eof.
C22_OpenBlockIsReadAfterEof ==
    (call.rule = "parse" /\ OpenAtEnd /\ parser.eof)
        => call.st = "Err" /\ call.v.msg = "read-after-EOF"

\* C22, amended.  parse succeeds only on inputs whose every '{' has its
\* '}'; on an input that leaves a block open it fails, and when it has
\* reached the end of the input it fails either with the fatal error of the
\* pull that follows the one Eof, or, the end falling inside an entry, with
\* the parse error that names Eof as the token met.
C22_OpenBlockNeverSucceeds ==
    call.rule = "parse" =>
        /\ call.st = "Ok" => Balanced(parser.input, "LBrace", "RBrace")
        /\ OpenAtEnd => call.st = "Err"
        /\ (OpenAtEnd /\ parser.eof)
            => \/ /\ call.v.msg = "read-after-EOF"
                  /\ parser.past = << "Eof", "read-after-EOF" >>
                  /\ Remaining(parser) = << >>
               \/ /\ call.v.msg = "got" /\ call.v.got = Eof
                  /\ parser.past = << "Eof" >>
                  /\ Remaining(parser) = << Eof >>

\* `a { a ;` : two entries registered, then the pull after Eof
C22_Witness ==
    /\ call.rule = "parse" /\ call.st = "Err"
    /\ call.v.msg = "read-after-EOF"
    /\ parser.input = << Ident("a"), Punct("LBrace"), Ident("a"),
                         Punct("Semicolon") >>
    /\ Len(parser.tree) = 2
    /\ parser.past = << "Eof", "read-after-EOF" >>

(***************************************************************************)
(* SpecLoops: parse run on up to MaxTreeLen tokens of entries and blocks,   *)
(* and on a variable whose initializer is up to MaxLoopLen tokens: an       *)
(* operand, '-' (unary and binary), '/' (binary, and the separator of a     *)
(* path), '.', ',' and parentheses.                                         *)
(***************************************************************************)
MaxLoopLen == 5

LoopAlphabet ==
    { Ident("a"), Punct("Sub"), Punct("Dot"), Punct("Comma"),
      Punct("LParen"), Punct("RParen"), Punct("Slash") }

InitLoops ==
    /\ \E input \in SeqsUpTo(TreeAlphabet, MaxTreeLen)
                     \cup { << Ident("v"), Punct("Assign") >> \o init :
                              init \in SeqsUpTo(LoopAlphabet, MaxLoopLen) } :
         parser = new(input)
    /\ call = NoCall

SpecLoops == InitLoops /\ [][DoParse]_vars

\* parse has ended with a finalized tree, or with the one fatal error raised
Ended ==
    /\ parser.panic = ""
    /\ \/ /\ call.st = "Ok" /\ parser.errors = << >>
          /\ parser.tree # << >>
          /\ parser.tree[Len(parser.tree)].fn = "finalize"
       \/ /\ call.st = "Err" /\ parser.errors # << >>
          /\ call.v = parser.errors[1].err

\* C23, as stated.  parse ends with a finalized tree or a fatal error, and
\* every iteration after which a loop went on has drawn a fresh token from
\* the input.
C23_IterationsDrawFresh ==
    call.rule = "parse"
        => Ended /\ \A l \in parser.loops : l.drew >= 1

\* C23, amended.  parse ends with a finalized tree or a fatal error, and
\* every iteration after which a loop went on has consumed a token of the
\* remaining stream: the buffered token, a token freshly drawn, or Eof.
C23_IterationsConsume ==
    call.rule = "parse"
        => Ended /\ \A l \in parser.loops : l.took >= 1

\* `a ; ;` : the ';' that the entry a has put back is all that the second
\* iteration of tree_entries consumes
C23_Witness ==
    /\ call.rule = "parse" /\ call.st = "Ok"
    /\ parser.input = << Ident("a"), Punct("Semicolon"), Punct("Semicolon") >>
    /\ [loop |-> "tree_entries", took |-> 1, drew |-> 0] \in parser.loops

====
